---- MODULE Spec2Model ----
(***************************************************************************)
(* Model of calculate_probabilities.py: the multinomial-logit probability  *)
(* computation (calculate_probabilities), the chart step                   *)
(* (visualize_probabilities) and the driver that chains them.              *)
(*                                                                         *)
(* Floating point.  A float is a record [k, num, den]: k = "fin" is the    *)
(* non-negative rational num/den (in lowest terms), k = "inf" is +inf and  *)
(* k = "nan" is NaN.  The IEEE special cases the code can reach (exp       *)
(* underflowing to 0, exp overflowing to inf, 0/0, inf/inf, x/inf) are     *)
(* modelled exactly; finite results are exact rationals, i.e. rounding of  *)
(* relative size 2^-53 is ignored, ten orders of magnitude below the 1e-6  *)
(* tolerance the code tests against.                                       *)
(***************************************************************************)
EXTENDS Integers, Sequences, FiniteSets, TLC

VARIABLES
    parameters,      \* the coefficient dict handed to calculate_probabilities
    data,            \* ordered dict: sequence of [key, values]
    utilities,       \* list of utility callables (opaque identities)
    pc,              \* position in the program
    n_points,        \* local of calculate_probabilities
    i,               \* outer loop index of the utility loop (0-based)
    idx,             \* inner loop index of the utility loop (0-based)
    utility_values,  \* dict 'V1'.. -> list
    probabilities,   \* dict 'P1'.. -> list
    exc,             \* the exception raised inside the try block
    result,          \* what calculate_probabilities returned
    calls,           \* log of utility invocations
    exp_count,       \* number of np.exp evaluations performed
    printed,         \* lines written to stdout
    output_file,     \* whether output.txt was written
    plotted,         \* labels handed to plt.plot, in order
    figure_saved     \* whether plt.savefig completed

vars == <<parameters, data, utilities, pc, n_points, i, idx, utility_values,
          probabilities, exc, result, calls, exp_count, printed, output_file,
          plotted, figure_saved>>

\* ------------------------------------------------------------------ bounds
MaxVars == 3
MaxObs == 2
MaxAlts == 4
MaxCalls == 4

\* ------------------------------------------------------------------ inputs
VarNames == <<"X1", "X2", "Sero", "X4", "X5", "X6">>

ParameterSets == {"coefficients_a", "coefficients_b"}

\* Values a utility function can return: two below the underflow threshold
\* of exp, two ordinary ones, one above the overflow threshold.
UtilityValues == {-800, -750, 0, 1, 710}

\* What one call of a utility function does: return a value, or raise.
UtilityOutcomes ==
    {[raised |-> FALSE, value |-> v] : v \in UtilityValues}
        \cup {[raised |-> TRUE, value |-> 0]}

\* The value of variable number k at position p: distinct for every cell.
Cell(k, p) == 10 * k + p

\* ------------------------------------------------------------------ floats
RECURSIVE GCD(_, _)
GCD(a, b) == IF b = 0 THEN a ELSE GCD(b, a % b)

Fin(a, b) == LET g == GCD(a, b) IN [k |-> "fin", num |-> a \div g, den |-> b \div g]

NaN == [k |-> "nan", num |-> 0, den |-> 1]

Inf == [k |-> "inf", num |-> 0, den |-> 1]

Zero == Fin(0, 1)

One == Fin(1, 1)

FAdd(x, y) ==
    IF x.k = "nan" \/ y.k = "nan" THEN NaN
    ELSE IF x.k = "inf" \/ y.k = "inf" THEN Inf
    ELSE LET g == GCD(x.den, y.den)
             l == (x.den \div g) * y.den
         IN  Fin(x.num * (l \div x.den) + y.num * (l \div y.den), l)

FDiv(x, y) ==
    IF x.k = "nan" \/ y.k = "nan" THEN NaN
    ELSE IF x.k = "inf" THEN (IF y.k = "inf" THEN NaN ELSE Inf)
    ELSE IF y.k = "inf" THEN Zero
    ELSE IF y.num = 0 THEN (IF x.num = 0 THEN NaN ELSE Inf)
    ELSE Fin(x.num * y.den, x.den * y.num)

\* np.exp on a float64: 0.0 below about -745.13, inf above about 709.78,
\* otherwise e^v, tabulated to three decimals for the ordinary utilities the
\* model draws (the last branch is outside the table and is never taken).
np_exp(v) ==
    IF v >= 710 THEN Inf
    ELSE IF v <= -746 THEN Zero
    ELSE IF v = 0 THEN Fin(1000, 1000)
    ELSE IF v = 1 THEN Fin(2718, 1000)
    ELSE IF v = -1 THEN Fin(368, 1000)
    ELSE IF v = 2 THEN Fin(7389, 1000)
    ELSE NaN

\* Python's sum(): a left fold starting from 0.
RECURSIVE py_sum(_)
py_sum(s) == IF s = <<>> THEN Zero ELSE FAdd(py_sum(SubSeq(s, 1, Len(s) - 1)), s[Len(s)])

Tolerance == 1000000

\* abs(total - 1) < 1e-6
within_tolerance(total) ==
    /\ total.k = "fin"
    /\ LET d == IF total.num >= total.den THEN total.num - total.den
                ELSE total.den - total.num
       IN  \/ d = 0
           \/ d <= total.den \div Tolerance /\ d * Tolerance < total.den

\* ------------------------------------------------------------------ helpers
VKey(k) == "V" \o ToString(k)

\* Keys numbered from 0: f'P{i}' in place of f'P{i+1}'.
PKey_zero_based(k) == "P" \o ToString(k - 1)

PKey(k) == "P" \o ToString(k)

NoException == [type |-> "none", key |-> "", expected |-> 0, got |-> 0, index |-> 0]

NoneResult == [none |-> TRUE, dict |-> <<>>]

DictResult(d) == [none |-> FALSE, dict |-> d]

\* A length check that looks at the first two variables only.
mismatching_first_two(d, n) == {k \in 1..Len(d) : k <= 2 /\ Len(d[k].values) # n}

\* Positions of the variables whose length differs from n.
mismatching(d, n) == {k \in 1..Len(d) : Len(d[k].values) # n}

Min(S) == CHOOSE x \in S : \A y \in S : x <= y

\* A view that always reads the first observation.
data_point_first(d, pos) ==
    [name \in {d[k].key : k \in 1..Len(d)} |->
        LET k == CHOOSE q \in 1..Len(d) : d[q].key = name IN d[k].values[1]]

\* data_point = {key: values[i] for key, values in data.items()}
data_point(d, pos) ==
    [name \in {d[k].key : k \in 1..Len(d)} |->
        LET k == CHOOSE q \in 1..Len(d) : d[q].key = name IN d[k].values[pos + 1]]

\* Variables too short to be indexed at pos (IndexError in the comprehension).
too_short(d, pos) == {k \in 1..Len(d) : Len(d[k].values) <= pos}

\* exp_values = [np.exp(utility_values[f'V{j+1}'][i]) for j in range(len(utilities))]
exp_values(uv, m, pos) == [j \in 1..m |-> np_exp(uv[VKey(j)][pos + 1])]

\* The probabilities of one observation, from the utilities of that observation.
softmax_row(vs) ==
    LET ev == [j \in 1..Len(vs) |-> np_exp(vs[j])]
        sum_exp == py_sum(ev)
    IN  [j \in 1..Len(vs) |-> FDiv(ev[j], sum_exp)]

utility_row(uv, m, pos) == [j \in 1..m |-> uv[VKey(j)][pos + 1]]

\* total = sum(probabilities[f'P{j+1}'][i] for j in range(len(utilities)))
total(pr, m, pos) == py_sum([j \in 1..m |-> pr[PKey(j)][pos + 1]])

\* ------------------------------------------------------------------ Init
Init ==
    /\ parameters \in ParameterSets
    /\ \E nv \in 0..MaxVars :
         \E lens \in [1..nv -> 0..MaxObs] :
           data = [k \in 1..nv |->
                     [key |-> VarNames[k],
                      values |-> [p \in 1..lens[k] |-> Cell(k, p)]]]
    /\ \E m \in 0..MaxAlts : utilities = [j \in 1..m |-> "f" \o ToString(j)]
    /\ (data # <<>> => Len(data[1].values) * Len(utilities) <= MaxCalls)
    /\ pc = "validate"
    /\ n_points = 0
    /\ i = 0
    /\ idx = 0
    /\ utility_values = <<>>
    /\ probabilities = <<>>
    /\ exc = NoException
    /\ result = NoneResult
    /\ calls = <<>>
    /\ exp_count = 0
    /\ printed = <<>>
    /\ output_file = FALSE
    /\ plotted = <<>>
    /\ figure_saved = FALSE

\* ------------------------------------------------------------------ actions
\* Lines 21-28: the length check and the initialisation of the two dicts.
ValidateInputs ==
    /\ pc = "validate"
    /\ IF data = <<>>
       THEN /\ exc' = [NoException EXCEPT !.type = "StopIteration"]
            /\ pc' = "except"
            /\ UNCHANGED <<n_points, utility_values, probabilities>>
       ELSE LET n == Len(data[1].values)
                bad == mismatching(data, n)
            IN  IF bad # {}
                THEN /\ exc' = [type |-> "ValueError",
                                key |-> data[Min(bad)].key,
                                expected |-> n,
                                got |-> Len(data[Min(bad)].values),
                                index |-> 0]
                     /\ pc' = "except"
                     /\ UNCHANGED <<n_points, utility_values, probabilities>>
                ELSE /\ n_points' = n
                     /\ utility_values' =
                          [key \in {VKey(j) : j \in 1..Len(utilities)} |-> <<>>]
                     /\ probabilities' =
                          [key \in {PKey(j) : j \in 1..Len(utilities)} |-> <<>>]
                     /\ pc' = "utilities"
                     /\ UNCHANGED exc
    /\ UNCHANGED <<parameters, data, utilities, i, idx, result, calls, exp_count,
                   printed, output_file, plotted, figure_saved>>

\* A loop body that swallows the exception of a call and records 0 for it.
propagates_never(out) == FALSE

\* Line 34 sits directly in the try block: an exception of the call leaves
\* both loops.
propagates(out) == out.raised

\* Lines 31-34: one call utility_func(parameters, data_point).
EvaluateUtility ==
    /\ pc = "utilities"
    /\ i < n_points
    /\ idx < Len(utilities)
    /\ IF too_short(data, i) # {}
       THEN /\ exc' = [NoException EXCEPT !.type = "IndexError"]
            /\ pc' = "except"
            /\ UNCHANGED <<i, idx, utility_values, calls>>
       ELSE \E out \in UtilityOutcomes :
              /\ calls' = Append(calls,
                     [func |-> utilities[idx + 1],
                      obs |-> i,
                      alt |-> idx,
                      parameters |-> parameters,
                      data_point |-> data_point(data, i),
                      raised |-> out.raised,
                      value |-> out.value])
              /\ IF propagates(out)
                 THEN /\ exc' = [NoException EXCEPT !.type = "KeyError"]
                      /\ pc' = "except"
                      /\ UNCHANGED <<i, idx, utility_values>>
                 ELSE /\ utility_values' =
                           [utility_values EXCEPT ![VKey(idx + 1)] = Append(@, out.value)]
                      /\ IF idx + 1 < Len(utilities)
                         THEN idx' = idx + 1 /\ i' = i
                         ELSE idx' = 0 /\ i' = i + 1
                      /\ UNCHANGED <<exc, pc>>
    /\ UNCHANGED <<parameters, data, utilities, n_points, probabilities, result,
                   exp_count, printed, output_file, plotted, figure_saved>>

\* Lines 37-41: exponentiate and normalise every observation.
ComputeProbabilities ==
    /\ pc = "utilities"
    /\ (i >= n_points \/ Len(utilities) = 0)
    /\ probabilities' =
         [key \in DOMAIN probabilities |->
            LET j == CHOOSE q \in 1..Len(utilities) : PKey(q) = key
            IN  [p \in 1..n_points |->
                   LET ev == exp_values(utility_values, Len(utilities), p - 1)
                       sum_exp == py_sum(ev)
                   IN  FDiv(ev[j], sum_exp)]]
    /\ exp_count' = exp_count + n_points * Len(utilities)
    /\ pc' = "check"
    /\ UNCHANGED <<parameters, data, utilities, n_points, i, idx, utility_values,
                   exc, result, calls, printed, output_file, plotted, figure_saved>>

\* Lines 44-48: the assertion on every observation, then the return.
ValidateProbabilities ==
    /\ pc = "check"
    /\ LET failing == {p \in 0..(n_points - 1) :
                         ~within_tolerance(total(probabilities, Len(utilities), p))}
       IN  IF failing # {}
           THEN /\ exc' = [NoException EXCEPT !.type = "AssertionError",
                                              !.index = Min(failing)]
                /\ pc' = "except"
                /\ UNCHANGED result
           ELSE /\ result' = DictResult(probabilities)
                /\ pc' = "returned"
                /\ UNCHANGED exc
    /\ UNCHANGED <<parameters, data, utilities, n_points, i, idx, utility_values,
                   probabilities, calls, exp_count, printed, output_file, plotted,
                   figure_saved>>

\* What the except clause returns for a caught exception (line 52).
except_return(e) == NoneResult

\* Lines 50-52: except Exception as e: print(f"Error: {e}"); return None.
HandleException ==
    /\ pc = "except"
    /\ printed' = Append(printed, [text |-> "Error", about |-> exc.type])
    /\ result' = except_return(exc)
    /\ pc' = "returned"
    /\ UNCHANGED <<parameters, data, utilities, n_points, i, idx, utility_values,
                   probabilities, exc, calls, exp_count, output_file, plotted,
                   figure_saved>>

\* Python truthiness of the returned value: None and {} are falsy.
truthy(r) == ~r.none /\ DOMAIN r.dict # {}

\* Lines 105-114: the driver writes output.txt when the result is truthy.
SaveOutput ==
    /\ pc = "returned"
    /\ truthy(result)
    /\ output_file' = TRUE
    /\ printed' = Append(printed, [text |-> "Probabilities saved", about |-> "none"])
    /\ pc' = "visualize"
    /\ UNCHANGED <<parameters, data, utilities, n_points, i, idx, utility_values,
                   probabilities, exc, result, calls, exp_count, plotted, figure_saved>>

\* Line 108 with a falsy result: nothing is written or drawn.
SkipOutput ==
    /\ pc = "returned"
    /\ ~truthy(result)
    /\ pc' = "exit"
    /\ UNCHANGED <<parameters, data, utilities, n_points, i, idx, utility_values,
                   probabilities, exc, result, calls, exp_count, printed,
                   output_file, plotted, figure_saved>>

\* The labels visualize_probabilities plots, in order (lines 68-70).
plot_labels == <<"P1", "P2", "P3">>

\* The plt.plot calls that complete before a missing key raises KeyError.
plots_completed(table) ==
    LET missing == {q \in 1..Len(plot_labels) : plot_labels[q] \notin DOMAIN table}
    IN  IF missing = {} THEN plot_labels
        ELSE SubSeq(plot_labels, 1, Min(missing) - 1)

\* Lines 62-85: visualize_probabilities(probabilities).
visualize_probabilities ==
    /\ pc = "visualize"
    /\ LET table == result.dict
       IN  IF "P1" \notin DOMAIN table
           THEN /\ plotted' = <<>>
                /\ figure_saved' = FALSE
                /\ printed' = Append(printed,
                       [text |-> "Visualization Error", about |-> "KeyError"])
           ELSE /\ plotted' = plots_completed(table)
                /\ IF Len(plots_completed(table)) = Len(plot_labels)
                   THEN /\ figure_saved' = TRUE
                        /\ printed' = Append(printed,
                               [text |-> "Visualization saved", about |-> "none"])
                   ELSE /\ figure_saved' = FALSE
                        /\ printed' = Append(printed,
                               [text |-> "Visualization Error", about |-> "KeyError"])
    /\ pc' = "exit"
    /\ UNCHANGED <<parameters, data, utilities, n_points, i, idx, utility_values,
                   probabilities, exc, result, calls, exp_count, output_file>>

Next ==
    \/ ValidateInputs
    \/ EvaluateUtility
    \/ ComputeProbabilities
    \/ ValidateProbabilities
    \/ HandleException
    \/ SaveOutput
    \/ SkipOutput
    \/ visualize_probabilities

Spec == Init /\ [][Next]_vars

\* ------------------------------------------------------------------ claims
\* calculate_probabilities has returned to the driver.
Finished == pc \in {"returned", "visualize", "exit"}

NumAlts == Len(utilities)

Mismatch ==
    \E k1, k2 \in 1..Len(data) : Len(data[k1].values) # Len(data[k2].values)

EqualLengths == data # <<>> /\ ~Mismatch

UtilityRaised == \E c \in 1..Len(calls) : calls[c].raised

\* x < y on floats; false as soon as one side is NaN or inf.
FLess(x, y) ==
    /\ x.k = "fin"
    /\ y.k = "fin"
    /\ x.num * y.den < y.num * x.den

AltNames == <<"P1", "P2", "P3", "P4", "P5", "P6", "P7", "P8">>

\* The value the call at (observation o, alternative a) returned.
CallValue(o, a) ==
    LET c == CHOOSE q \in 1..Len(calls) : calls[q].obs = o /\ calls[q].alt = a
    IN  calls[c].value

CallRow(o) == [j \in 1..NumAlts |-> CallValue(o, j - 1)]

\* The view of observation o, from the input table.
ExpectedView(o) ==
    [name \in {VarNames[k] : k \in 1..Len(data)} |->
        LET k == CHOOSE q \in 1..Len(data) : VarNames[q] = name IN Cell(k, o + 1)]

\* C1: when two variables have different lengths, no utility function is ever
\* invoked and nothing is exponentiated, and the run ends with the length
\* check's ValueError (naming a variable whose length is not the expected one)
\* and no table.
C1_ShapeMismatchRejected ==
    Mismatch =>
        /\ calls = <<>>
        /\ exp_count = 0
        /\ pc \notin {"utilities", "check", "visualize"}
        /\ Finished =>
             /\ result.none
             /\ exc.type = "ValueError"
             /\ exc.expected = Len(data[1].values)
             /\ exc.got # exc.expected
             /\ \E k \in 1..Len(data) :
                  data[k].key = exc.key /\ Len(data[k].values) = exc.got

C1_Witness ==
    /\ pc = "exit"
    /\ Len(data) = 3
    /\ Len(data[1].values) = 1
    /\ Len(data[2].values) = 1
    /\ Len(data[3].values) = 2
    /\ NumAlts >= 1
    /\ exc.key = "Sero"

\* C2: on equal-length observations with at least one utility function and
\* no utility function raising, a table is returned whose probabilities sum
\* to 1 within 1e-6 at every observation.
C2_Simplex ==
    (Finished /\ EqualLengths /\ NumAlts >= 1 /\ ~UtilityRaised) =>
        /\ ~result.none
        /\ \A p \in 0..(Len(data[1].values) - 1) :
             within_tolerance(
                py_sum([j \in 1..NumAlts |-> result.dict[AltNames[j]][p + 1]]))

\* C3: a returned table has exactly the keys P1..Pm, every value has n
\* entries, and entry i of Pj is the softmax of the utilities returned for
\* observation i, taken at alternative j.
C3_TableShape ==
    (Finished /\ ~result.none) =>
        /\ DOMAIN result.dict = {AltNames[j] : j \in 1..NumAlts}
        /\ \A key \in DOMAIN result.dict :
             Len(result.dict[key]) = Len(data[1].values)
        /\ \A j \in 1..NumAlts : \A p \in 1..Len(data[1].values) :
             result.dict[AltNames[j]][p] = softmax_row(CallRow(p - 1))[j]

C3_Witness ==
    /\ pc = "exit"
    /\ ~result.none
    /\ NumAlts = 2
    /\ Len(data[1].values) = 2
    /\ result.dict["P1"][1] # result.dict["P1"][2]

\* C4: a length mismatch, a raising utility function and a failed
\* normalisation check give the caller three different outcomes: what the
\* caller got after one of them is not what it would get after another.
FaultTypes == {"ValueError", "KeyError", "AssertionError"}

C4_FaultsDistinguishable ==
    (Finished /\ exc.type \in FaultTypes) =>
        \A t \in FaultTypes \ {exc.type} :
            except_return([NoException EXCEPT !.type = t]) # result

\* C5: a call that raised is the last call of the run; nothing is
\* exponentiated or normalised after it, and the caller gets no table.
C5_UtilityFaultAborts ==
    \A c \in 1..Len(calls) :
        calls[c].raised =>
            /\ c = Len(calls)
            /\ exp_count = 0
            /\ \A key \in DOMAIN probabilities : probabilities[key] = <<>>
            /\ pc \in {"except", "returned", "exit"}
            /\ Finished => result.none

C5_Witness ==
    /\ pc = "exit"
    /\ UtilityRaised
    /\ Len(calls) >= 2
    /\ Len(calls) < n_points * NumAlts

\* C6: with a single utility function that does not raise, on equal-length
\* observations, the table is returned and every entry of P1 is exactly 1.
C6_SingleAlternative ==
    (Finished /\ EqualLengths /\ NumAlts = 1 /\ ~UtilityRaised) =>
        /\ ~result.none
        /\ \A p \in 1..Len(data[1].values) : result.dict["P1"][p] = One

\* C7: for a run that returned a table with m >= 2, the run that differs
\* only by a larger utility of alternative j at observation o also returns a
\* table, in which P[j][o] is strictly larger and every other P[k][o] is
\* strictly smaller.
C7_Monotonicity ==
    (Finished /\ ~result.none /\ NumAlts >= 2) =>
        \A o \in 0..(n_points - 1) : \A j \in 1..NumAlts : \A u \in UtilityValues :
            u > CallValue(o, j - 1) =>
                LET second == softmax_row([CallRow(o) EXCEPT ![j] = u])
                IN  /\ within_tolerance(py_sum(second))
                    /\ FLess(result.dict[AltNames[j]][o + 1], second[j])
                    /\ \A k \in 1..NumAlts \ {j} :
                         FLess(second[k], result.dict[AltNames[k]][o + 1])

\* C8: with no observations (every sequence empty) or no utility functions,
\* the run reports a fault: it returns no table.
C8_EmptyInputRejected ==
    (/\ Finished
     /\ \/ \A k \in 1..Len(data) : Len(data[k].values) = 0
        \/ NumAlts = 0) =>
        result.none

\* C9: no (observation, alternative) pair is evaluated twice; every call gets
\* the unchanged coefficients, the function of its alternative and the view
\* of its observation, and its value is stored at that observation's position
\* of that alternative's utility sequence; once evaluation has completed
\* without a fault there are exactly n*m calls, one per pair, and every
\* probability is the softmax of the utilities of its own observation.
C9_EachUtilityOncePerObservation ==
    /\ \A c1, c2 \in 1..Len(calls) :
         (calls[c1].obs = calls[c2].obs /\ calls[c1].alt = calls[c2].alt) => c1 = c2
    /\ \A c \in 1..Len(calls) :
         /\ calls[c].parameters = parameters
         /\ calls[c].alt \in 0..(NumAlts - 1)
         /\ calls[c].func = utilities[calls[c].alt + 1]
         /\ calls[c].obs \in 0..(Len(data[1].values) - 1)
         /\ calls[c].data_point = ExpectedView(calls[c].obs)
         /\ ~calls[c].raised =>
              utility_values[VKey(calls[c].alt + 1)][calls[c].obs + 1] = calls[c].value
    /\ (EqualLengths /\ ~UtilityRaised /\ pc \notin {"validate", "utilities"}) =>
         /\ Len(calls) = Len(data[1].values) * NumAlts
         /\ \A o \in 0..(Len(data[1].values) - 1) : \A a \in 0..(NumAlts - 1) :
              /\ \E c \in 1..Len(calls) : calls[c].obs = o /\ calls[c].alt = a
              /\ probabilities[AltNames[a + 1]][o + 1] = softmax_row(CallRow(o))[a + 1]

C9_Witness ==
    /\ pc = "exit"
    /\ ~result.none
    /\ Len(data) = 2
    /\ Len(data[1].values) = 2
    /\ NumAlts = 2
    /\ Len(calls) = 4
    /\ CallRow(0) # CallRow(1)

\* C10: once the chart step has run on a table, the plotted series are
\* exactly the table's keys and the chart has been saved.
C10_PlotsEveryAlternative ==
    (pc = "exit" /\ truthy(result)) =>
        /\ {plotted[q] : q \in 1..Len(plotted)} = DOMAIN result.dict
        /\ figure_saved

====
